---------------------------- MODULE Spec2Model ----------------------------
(***************************************************************************)
(* Model of src/src/main.rs: backfill_usdc_transfers (the paginated walk   *)
(* over an account's signature history, the per-instruction transfer       *)
(* classification, the rendering and the final sort) and handle_backfill   *)
(* (the HTTP mapping of its result).                                       *)
(*                                                                         *)
(* Representation notes.                                                   *)
(*  - An i64 count of seconds t is held as the record [d, s] with          *)
(*    t = d * 86400 + s and 0 <= s < 86400.  This is the split that        *)
(*    chrono's NaiveDateTime::from_timestamp makes first (div_euclid /     *)
(*    rem_euclid by 86400); it is used for every timestamp because TLC's   *)
(*    integers are 32 bits wide and the interesting block times (year      *)
(*    10000, beyond chrono's range) do not fit in 32 bits of seconds.      *)
(*  - A Rust String that is compared or sorted byte-wise is a sequence of  *)
(*    byte values (ASCII codes).  Strings that are only tested for         *)
(*    equality (program names, addresses, signatures) are TLA+ strings.    *)
(*  - A serde_json value is [tag, s]: tag "absent" (no such key), "str"    *)
(*    (a JSON string s) or "other" (any JSON value that is not a string).  *)
(*    The amount strings, which are parsed, are sequences of one-character *)
(*    strings.                                                             *)
(***************************************************************************)
EXTENDS Integers, Sequences, FiniteSets, TLC

VARIABLES
    pc,                \* position of the one in-flight backfill
    before_signature,  \* the cursor (Option<String>)
    sigs,              \* the page being iterated
    idx,               \* 1-based position of the for loop in sigs
    transfers,         \* Vec of rendered lines (each with its ghost event)
    reply,             \* what handle_backfill answered: status and body
    crossed,           \* ghost: a record older than the cutoff was met
    lastList,          \* ghost: outcome of the latest listing request
    nList,             \* ghost: listing requests issued
    nPages,            \* ghost: non-empty pages received
    served,            \* ghost: records handed out by the listing so far
    lastFetch,         \* ghost: outcome of the latest get_transaction call
    nFetch,            \* ghost: get_transaction requests issued
    request,           \* ghost: the config of the latest listing request
    ix,                \* classifier harness: the instruction under test
    verdict            \* classifier harness: the classifier's answer for ix

vars == <<pc, before_signature, sigs, idx, transfers, reply, crossed,
          lastList, nList, nPages, served, lastFetch, nFetch, request, ix,
          verdict>>

-----------------------------------------------------------------------------
(* Bounds of the model *)

\* Records in the account's whole (finite) history.
MaxHistory == 2

\* Instructions in one transaction.
MaxIx == 1

-----------------------------------------------------------------------------
(* Configuration: main.rs lines 11-12, 20-21, 31 *)

USDC_MINT_ADDRESS == "Es9vMFrzaCERH16Cdv83hA5KaM6rDx8JEX5Rk3z3aZ9o"
WALLET_ADDRESS == "7cMEhpt9y3inBNVv8fNnuaEbx7hKHZnLvR1KWKKxuDDU"

\* limit: Some(1000)
PageLimit == 1000

\* An i64 number of seconds as [d, s]; Secs normalises d * 86400 + s.
Secs(d, s) == [d |-> d + (s \div 86400), s |-> s % 86400]

TsLess(a, b) == a.d < b.d \/ (a.d = b.d /\ a.s < b.s)

\* chrono::Utc::now().timestamp(): 2026-11-01T12:00:00Z in the model.
now == Secs(20758, 43200)

\* now.timestamp() - 24 * 3600
cutoff_ts == Secs(now.d, now.s - 24 * 3600)

-----------------------------------------------------------------------------
(* Option and serde_json values *)

None == [some |-> FALSE, v |-> ""]
Some(x) == [some |-> TRUE, v |-> x]

Absent == [tag |-> "absent", s |-> ""]
JStr(s) == [tag |-> "str", s |-> s]
JOther == [tag |-> "other", s |-> ""]

\* Value::get(key).and_then(|v| v.as_str())
AsStr(v) == IF v.tag = "str" THEN Some(v.s) ELSE None

-----------------------------------------------------------------------------
(* Transfer classification: main.rs lines 70-133 *)

\* parsed.program != "spl-token" => continue
ProgramOk(program) == program = "spl-token"

\* Mutant: the type test of line 84 is missing.
TypeOkAnyType(type) == TRUE

\* parsed.parsed.get("type").and_then(as_str).unwrap_or(""), then the test of
\* line 84.
TypeOk(type) ==
    LET instruction_type == IF AsStr(type).some THEN AsStr(type).v ELSE ""
    IN  instruction_type = "transfer" \/ instruction_type = "transferChecked"

\* Mutant: an instruction without a mint string is dropped as well.
MintOkStrict(mint) ==
    LET m == AsStr(mint)
    IN  m.some /\ m.v = USDC_MINT_ADDRESS

\* if let Some(mint) = ... { if mint != USDC_MINT_ADDRESS { continue } }
MintOk(mint) ==
    LET m == AsStr(mint)
    IN  ~ (m.some /\ m.v # USDC_MINT_ADDRESS)

\* info.get("amount").as_str().or_else(tokenAmount.amount.as_str())
\*     .unwrap_or("0")
AmountStr(amount, tokenAmount) ==
    IF amount.tag = "str" THEN amount.s
    ELSE IF tokenAmount.tag = "str" THEN tokenAmount.s
    ELSE <<"0">>

DigitChars == {"0", "1", "2", "3", "4", "5", "6", "7", "8", "9"}

DigitVal(c) ==
    CASE c = "0" -> 0 [] c = "1" -> 1 [] c = "2" -> 2 [] c = "3" -> 3
      [] c = "4" -> 4 [] c = "5" -> 5 [] c = "6" -> 6 [] c = "7" -> 7
      [] c = "8" -> 8 [] c = "9" -> 9

RECURSIVE StripZeros(_)
StripZeros(cs) ==
    IF cs # <<>> /\ Head(cs) = "0" THEN StripZeros(Tail(cs)) ELSE cs

RECURSIVE DecValue(_, _)
DecValue(cs, acc) ==
    IF cs = <<>> THEN acc ELSE DecValue(Tail(cs), acc * 10 + DigitVal(Head(cs)))

\* u64::MAX = 18446744073709551615, as its decimal digits.
U64MaxDigits ==
    <<1, 8, 4, 4, 6, 7, 4, 4, 0, 7, 3, 7, 0, 9, 5, 5, 1, 6, 1, 5>>

RECURSIVE DigitsExceed(_, _)
DigitsExceed(cs, max) ==
    IF cs = <<>> THEN FALSE
    ELSE IF DigitVal(Head(cs)) # Head(max) THEN DigitVal(Head(cs)) > Head(max)
    ELSE DigitsExceed(Tail(cs), Tail(max))

\* str::parse::<u64>(): an optional leading '+', then one or more decimal
\* digits, the value at most u64::MAX; anything else is Err.
ParseU64(cs) ==
    LET body == IF cs # <<>> /\ Head(cs) = "+" THEN Tail(cs) ELSE cs
        digits == body # <<>> /\ \A k \in 1..Len(body) : body[k] \in DigitChars
        sig == StripZeros(body)
        overflow == Len(sig) > 20
                    \/ (Len(sig) = 20 /\ DigitsExceed(sig, U64MaxDigits))
    IN  IF digits /\ ~overflow
        THEN [ok |-> TRUE, v |-> DecValue(sig, 0)]
        ELSE [ok |-> FALSE, v |-> 0]

\* Mutant: a string that does not parse counts as 1 instead of 0.
AmountU64DefaultOne(amount, tokenAmount) ==
    LET r == ParseU64(AmountStr(amount, tokenAmount))
    IN  IF r.ok THEN r.v ELSE 1

\* amount_str.parse::<u64>().unwrap_or(0)
AmountU64(amount, tokenAmount) ==
    LET r == ParseU64(AmountStr(amount, tokenAmount))
    IN  IF r.ok THEN r.v ELSE 0

\* Mutant: the destination is tested before the source.
DirectionDestinationFirst(source, destination) ==
    IF destination.some /\ destination.v = WALLET_ADDRESS THEN "received"
    ELSE IF source.some /\ source.v = WALLET_ADDRESS THEN "sent"
    ELSE "continue"

\* Mutant: the inner test of the destination is inverted.
DirectionDestinationInverted(source, destination) ==
    IF source.some
    THEN IF source.v = WALLET_ADDRESS THEN "sent"
         ELSE IF destination.some
              THEN IF destination.v # WALLET_ADDRESS THEN "received"
                   ELSE "continue"
              ELSE "continue"
    ELSE "continue"

\* Lines 119-133: "sent", "received", or "continue" (the instruction is
\* dropped).
Direction(source, destination) ==
    IF source.some
    THEN IF source.v = WALLET_ADDRESS THEN "sent"
         ELSE IF destination.some
              THEN IF destination.v = WALLET_ADDRESS THEN "received"
                   ELSE "continue"
              ELSE "continue"
    ELSE "continue"

\* Lines 71-133 for one instruction: the (direction, amount_u64) pairs the
\* loop body goes on to push for it, in order; <<>> when it continues.
ClassifyIx(i) ==
    IF i.kind # "Parsed" THEN <<>>
    ELSE IF ~ProgramOk(i.program) THEN <<>>
    ELSE IF ~TypeOk(i.type) THEN <<>>
    ELSE IF ~i.hasInfo THEN <<>>
    ELSE IF ~MintOk(i.mint) THEN <<>>
    ELSE IF AmountU64(i.amount, i.tokenAmount) = 0 THEN <<>>
    ELSE LET direction == Direction(AsStr(i.source), AsStr(i.destination))
         IN  IF direction = "continue" THEN <<>>
             ELSE <<[direction |-> direction,
                     amount_u64 |-> AmountU64(i.amount, i.tokenAmount)]>>

-----------------------------------------------------------------------------
(* Rendering of one transfer: main.rs lines 117, 135-146 *)

\* The proleptic Gregorian date of day number z (days since 1970-01-01), as
\* chrono's NaiveDate computes it.
CivilFromDays(z) ==
    LET zz == z + 719468
        era == zz \div 146097
        doe == zz - era * 146097
        yoe == (doe - (doe \div 1460) + (doe \div 36524) - (doe \div 146096))
               \div 365
        doy == doe - (365 * yoe + (yoe \div 4) - (yoe \div 100))
        mp == (5 * doy + 2) \div 153
        m == IF mp < 10 THEN mp + 3 ELSE mp - 9
    IN  [year |-> yoe + era * 400 + (IF m <= 2 THEN 1 ELSE 0),
         month |-> m,
         day |-> doy - ((153 * mp + 2) \div 5) + 1]

\* NaiveDateTime::from_timestamp(block_time, 0) panics ("invalid or
\* out-of-range datetime") unless the date lies in NaiveDate's range.
InChronoRange(t) ==
    LET y == CivilFromDays(t.d).year
    IN  y >= -262144 /\ y <= 262143

RECURSIVE DecDigits(_)
\* The decimal digits of n >= 0 as bytes.
DecDigits(n) ==
    IF n < 10 THEN <<48 + n>> ELSE Append(DecDigits(n \div 10), 48 + (n % 10))

RECURSIVE ZeroPad(_, _)
\* {:0w}: bytes padded with '0' on the left to width w.
ZeroPad(bytes, w) ==
    IF Len(bytes) >= w THEN bytes ELSE ZeroPad(<<48>> \o bytes, w)

\* The year as chrono writes it: four digits for 0..9999, otherwise an
\* explicit sign and at least four digits ({:+05}).
YearBytes(y) ==
    IF y >= 0 /\ y <= 9999 THEN ZeroPad(DecDigits(y), 4)
    ELSE IF y > 9999 THEN <<43>> \o DecDigits(y)
    ELSE <<45>> \o ZeroPad(DecDigits(-y), 4)

\* DateTime::<Utc>::to_rfc3339() with zero nanoseconds:
\* YYYY-MM-DDTHH:MM:SS+00:00
Rfc3339(t) ==
    LET c == CivilFromDays(t.d)
    IN  YearBytes(c.year) \o <<45>> \o ZeroPad(DecDigits(c.month), 2)
        \o <<45>> \o ZeroPad(DecDigits(c.day), 2) \o <<84>>
        \o ZeroPad(DecDigits(t.s \div 3600), 2) \o <<58>>
        \o ZeroPad(DecDigits((t.s % 3600) \div 60), 2) \o <<58>>
        \o ZeroPad(DecDigits(t.s % 60), 2)
        \o <<43, 48, 48, 58, 48, 48>>

\* format!("{:.6}", amount_u64 as f64 / 1_000_000f64), for the amounts of the
\* model (all far below 2^53, where the division and the rounding to six
\* places are exact).
AmountBytes(amount_u64) ==
    DecDigits(amount_u64 \div 1000000) \o <<46>>
    \o ZeroPad(DecDigits(amount_u64 % 1000000), 6)

\* "sent" / "received"
DirectionBytes(direction) ==
    IF direction = "sent" THEN <<115, 101, 110, 116>>
    ELSE <<114, 101, 99, 101, 105, 118, 101, 100>>

\* format!("{} | {}{:.6} USDC | {}", date.to_rfc3339(), sign, amount,
\*         direction)
RenderLine(block_time, direction, amount_u64) ==
    Rfc3339(block_time) \o <<32, 124, 32>>
    \o (IF direction = "sent" THEN <<45>> ELSE <<43>>)
    \o AmountBytes(amount_u64)
    \o <<32, 85, 83, 68, 67, 32, 124, 32>>
    \o DirectionBytes(direction)

-----------------------------------------------------------------------------
(* transfers.sort(): main.rs line 157 *)

RECURSIVE StrLess(_, _)
\* Ord for String: byte-wise lexicographic, a proper prefix first.
StrLess(a, b) ==
    IF b = <<>> THEN FALSE
    ELSE IF a = <<>> THEN TRUE
    ELSE IF Head(a) # Head(b) THEN Head(a) < Head(b)
    ELSE StrLess(Tail(a), Tail(b))

\* The sort compares the rendered lines, nothing else.
EntryLess(x, y) == StrLess(x.line, y.line)

RECURSIVE InsertSorted(_, _)
\* x goes after every entry that is not greater than it (stability).
InsertSorted(sorted, x) ==
    IF sorted = <<>> THEN <<x>>
    ELSE IF EntryLess(x, Head(sorted)) THEN <<x>> \o sorted
    ELSE <<Head(sorted)>> \o InsertSorted(Tail(sorted), x)

RECURSIVE SortEntries(_)
\* Vec::sort(): a stable sort.
SortEntries(v) ==
    IF v = <<>> THEN <<>>
    ELSE InsertSorted(SortEntries(SubSeq(v, 1, Len(v) - 1)), v[Len(v)])

-----------------------------------------------------------------------------
(* What the RPC node may answer *)

\* Signature strings; Signature::from_str (base58, 64 bytes) accepts the
\* first two.
Signatures == {"sigA", "sigB", "not-base58!"}

\* sig_info.signature.parse()
SigParses(signature) == signature \in {"sigA", "sigB"}

NoTime == [some |-> FALSE, v |-> Secs(0, 0)]

\* One second before the cutoff, the cutoff itself, 10000-01-01T00:00:00Z
\* (253402300800 s) and a day number past NaiveDate's last year.
BlockTimes ==
    {NoTime,
     Some(Secs(cutoff_ts.d, cutoff_ts.s - 1)),
     Some(cutoff_ts),
     Some(Secs(2932897, 0)),
     Some(Secs(100000000, 0))}

\* RpcConfirmedTransactionStatusWithSignature: signature and block_time.
Records == [signature : Signatures, block_time : BlockTimes]

\* The pages of at most n records.
Pages(n) == UNION {[1..k -> Records] : k \in 0..n}

AbsentA == [tag |-> "absent", s |-> <<>>]
JOtherA == [tag |-> "other", s |-> <<>>]

\* A parsed spl-token instruction with the given fields.
TokenIx(type, mint, source, destination, amount, tokenAmount) ==
    [kind |-> "Parsed", program |-> "spl-token", type |-> JStr(type),
     hasInfo |-> TRUE, mint |-> mint, source |-> source,
     destination |-> destination, amount |-> amount,
     tokenAmount |-> tokenAmount]

\* The instructions the transactions of the walk are made of: a transfer out
\* of the wallet (2.5 USDC), a transferChecked into it (0.000001 USDC, no
\* direct amount field), and a burn.
WalkInstructions ==
    {TokenIx("transfer", JStr(USDC_MINT_ADDRESS), JStr(WALLET_ADDRESS),
             JStr("OtherAccount"),
             JStr(<<"2", "5", "0", "0", "0", "0", "0">>), AbsentA),
     TokenIx("transferChecked", Absent, JStr("OtherAccount"),
             JStr(WALLET_ADDRESS), AbsentA, JStr(<<"1">>)),
     TokenIx("burn", JStr(USDC_MINT_ADDRESS), JStr(WALLET_ADDRESS),
             Absent, JStr(<<"5">>), AbsentA)}

\* parsed_tx.message.instructions of a fetched transaction.
InstructionLists == UNION {[1..k -> WalkInstructions] : k \in 0..MaxIx}

\* "18446744073709551616": u64::MAX + 1 as an amount string.
U64MaxPlusOne ==
    <<"1", "8", "4", "4", "6", "7", "4", "4", "0", "7", "3", "7", "0", "9",
      "5", "5", "1", "6", "1", "6">>

\* Every instruction shape the classifier is checked on.
Instructions ==
    [kind : {"Parsed", "PartiallyDecoded", "Compiled"},
     program : {"spl-token", "spl-token-2022", "system"},
     type : {JStr("transfer"), JStr("transferChecked"), JStr("burn"),
             Absent, JOther},
     hasInfo : BOOLEAN,
     mint : {Absent, JOther, JStr(USDC_MINT_ADDRESS), JStr("OtherMint")},
     source : {Absent, JOther, JStr(WALLET_ADDRESS), JStr("OtherAccount")},
     destination : {Absent, JStr(WALLET_ADDRESS), JStr("OtherAccount")},
     amount : {AbsentA, JOtherA, JStr(<<"0">>),
               JStr(<<"2", "5", "0", "0", "0", "0", "0">>),
               JStr(<<"1", "2", "a">>), JStr(<<>>), JStr(<<"0", "0">>),
               JStr(U64MaxPlusOne)},
     tokenAmount : {AbsentA, JStr(<<"1">>), JStr(<<"-", "1">>)}]

-----------------------------------------------------------------------------
(* How a backfill ends: main.rs lines 157-158 and 161-169 *)

NoReply == [status |-> 0, body |-> <<>>, error |-> <<>>]

\* Mutant: the Err arm answers like the Ok arm.
handle_backfill_always_ok(result) ==
    [status |-> 200, body |-> result.data, error |-> <<>>]

\* handle_backfill, lines 162-168: Ok(data) is answered with 200 and data,
\* Err(e) with 500 and format!("Error: {}", e).  Both arms are Ok(reply):
\* the handler never returns a Rejection.
handle_backfill(result) ==
    IF result.ok
    THEN [status |-> 200, body |-> result.data, error |-> <<>>]
    ELSE [status |-> 500, body |-> <<>>, error |-> <<"Error: ", result.e>>]

\* transfers.sort(); Ok(transfers.join("\n")), handed to handle_backfill.
Finish ==
    /\ transfers' = SortEntries(transfers)
    /\ reply' = handle_backfill([ok |-> TRUE, data |-> SortEntries(transfers),
                                 e |-> ""])
    /\ pc' = "returned"

\* `?` returns Err(e) to handle_backfill; transfers is dropped with the
\* function's frame.
Fatal(e) ==
    /\ reply' = handle_backfill([ok |-> FALSE, data |-> <<>>, e |-> e])
    /\ pc' = "returned"
    /\ UNCHANGED transfers

-----------------------------------------------------------------------------
(* The walk: main.rs lines 23-155 *)

\* The entries pushed for the instructions of one transaction, in order.
RECURSIVE Pushed(_, _, _)
Pushed(instructions, block_time, n) ==
    IF instructions = <<>> THEN <<>>
    ELSE LET es == ClassifyIx(Head(instructions))
             entries == [k \in 1..Len(es) |->
                           [line |-> RenderLine(block_time, es[k].direction,
                                                es[k].amount_u64),
                            block_time |-> block_time,
                            direction |-> es[k].direction,
                            amount_u64 |-> es[k].amount_u64,
                            ord |-> n + k]]
         IN  entries \o Pushed(Tail(instructions), block_time, n + Len(es))

\* Mutant: a failed listing is taken for an empty page.
ListErrAsEmpty ==
    /\ pc = "list"
    /\ request' = [before |-> before_signature, limit |-> Some(PageLimit)]
    /\ nList' = nList + 1
    /\ lastList' = "err"
    /\ Finish
    /\ UNCHANGED <<before_signature, sigs, idx, nPages, served, crossed,
                   lastFetch, ix, verdict,
                   nFetch>>

\* Lines 27-34: every listing request is made with before:
\* before_signature.clone() and limit: Some(1000); `request` records it.
\* Line 34: the listing call fails and `?` returns the error.
ListErr ==
    /\ pc = "list"
    /\ request' = [before |-> before_signature, limit |-> Some(PageLimit)]
    /\ nList' = nList + 1
    /\ lastList' = "err"
    /\ Fatal("listing failed")
    /\ UNCHANGED <<before_signature, sigs, idx, nPages, served, crossed,
                   lastFetch, ix, verdict,
                   nFetch>>

\* Mutant: an empty page does not break the loop; the request is repeated.
ListEmptyContinue ==
    /\ pc = "list"
    /\ nList < 3
    /\ request' = [before |-> before_signature, limit |-> Some(PageLimit)]
    /\ nList' = nList + 1
    /\ lastList' = "empty"
    /\ UNCHANGED <<pc, before_signature, sigs, idx, transfers, reply, nPages,
                   served, crossed, lastFetch, ix, verdict,
                   nFetch>>

\* Lines 36-38: an empty page breaks the loop.
ListEmpty ==
    /\ pc = "list"
    /\ request' = [before |-> before_signature, limit |-> Some(PageLimit)]
    /\ nList' = nList + 1
    /\ lastList' = "empty"
    /\ Finish
    /\ UNCHANGED <<before_signature, sigs, idx, nPages, served, crossed,
                   lastFetch, ix, verdict,
                   nFetch>>

\* Lines 27-40: a non-empty page arrives and the for loop starts on it.
ListPage(page) ==
    /\ pc = "list"
    /\ page # <<>>
    /\ request' = [before |-> before_signature, limit |-> Some(PageLimit)]
    /\ nList' = nList + 1
    /\ lastList' = "page"
    /\ nPages' = nPages + 1
    /\ served' = served + Len(page)
    /\ sigs' = page
    /\ idx' = 1
    /\ pc' = "record"
    /\ UNCHANGED <<before_signature, transfers, reply, crossed, lastFetch,
                   ix, verdict,
                   nFetch>>

\* Mutant: the cursor moves to the page's first signature.
EndOfPageFirstSignature ==
    /\ pc = "record"
    /\ idx > Len(sigs)
    /\ before_signature' = Some(sigs[1].signature)
    /\ pc' = "list"
    /\ UNCHANGED <<sigs, idx, transfers, reply, nList, nPages, served,
                   lastList, crossed, lastFetch, ix, verdict, nFetch,
                   request>>

\* Line 154, after the for loop has run off the page's end: the cursor moves
\* to the page's last signature and the outer loop goes round.
EndOfPage ==
    /\ pc = "record"
    /\ idx > Len(sigs)
    /\ before_signature' = Some(sigs[Len(sigs)].signature)
    /\ pc' = "list"
    /\ UNCHANGED <<sigs, idx, transfers, reply, nList, nPages, served,
                   lastList, crossed, lastFetch, ix, verdict,
                   nFetch, request>>

\* Mutant: a record without block time counts as timestamp 0 and ends the
\* walk.
SkipNoTimeAsEpoch ==
    /\ pc = "record"
    /\ idx <= Len(sigs)
    /\ ~sigs[idx].block_time.some
    /\ crossed' = TRUE
    /\ Finish
    /\ UNCHANGED <<before_signature, sigs, idx, nList, nPages, served,
                   lastList, lastFetch, ix, verdict, nFetch, request>>

\* Lines 41-45: a record without block time is passed over.
SkipNoTime ==
    /\ pc = "record"
    /\ idx <= Len(sigs)
    /\ ~sigs[idx].block_time.some
    /\ idx' = idx + 1
    /\ UNCHANGED <<pc, before_signature, sigs, transfers, reply, nList,
                   nPages, served, lastList, crossed, lastFetch, ix, verdict,
                   nFetch, request>>

\* Mutant: the comparison is made with the cutoff one second too early.
IsBeforeCutoffOffByOne(block_time) ==
    TsLess(block_time, Secs(cutoff_ts.d, cutoff_ts.s - 1))

\* Mutant: <= in place of <.
IsBeforeCutoffInclusive(block_time) ==
    TsLess(block_time, cutoff_ts) \/ block_time = cutoff_ts

\* block_time < cutoff_ts
IsBeforeCutoff(block_time) == TsLess(block_time, cutoff_ts)

\* Lines 48-50: break 'outer.
CutoffBreak ==
    /\ pc = "record"
    /\ idx <= Len(sigs)
    /\ sigs[idx].block_time.some
    /\ IsBeforeCutoff(sigs[idx].block_time.v)
    /\ crossed' = TRUE
    /\ Finish
    /\ UNCHANGED <<before_signature, sigs, idx, nList, nPages, served,
                   lastList, lastFetch, ix, verdict,
                   nFetch, request>>

\* Lines 46-53: the record is inside the window; go and fetch it.
InWindow ==
    /\ pc = "record"
    /\ idx <= Len(sigs)
    /\ sigs[idx].block_time.some
    /\ ~IsBeforeCutoff(sigs[idx].block_time.v)
    /\ pc' = "fetch"
    /\ UNCHANGED <<before_signature, sigs, idx, transfers, reply, nList,
                   nPages, served, lastList, crossed, lastFetch, ix, verdict,
                   nFetch, request>>

\* Mutant: a signature that does not parse is passed over.
SigParseFailsSkip ==
    /\ pc = "fetch"
    /\ ~SigParses(sigs[idx].signature)
    /\ lastFetch' = "badsig"
    /\ idx' = idx + 1
    /\ pc' = "record"
    /\ UNCHANGED <<before_signature, sigs, transfers, reply, nList, nPages,
                   served, lastList, crossed, ix, verdict, nFetch, request>>

\* Line 54: the signature string does not parse and `?` returns the error
\* before any request is made.
SigParseFails ==
    /\ pc = "fetch"
    /\ ~SigParses(sigs[idx].signature)
    /\ lastFetch' = "badsig"
    /\ Fatal("signature does not parse")
    /\ UNCHANGED <<before_signature, sigs, idx, nList, nPages, served,
                   lastList, crossed, ix, verdict,
                   nFetch, request>>

\* Lines 53-60: get_transaction_with_config fails and `?` returns the error.
FetchErr ==
    /\ pc = "fetch"
    /\ SigParses(sigs[idx].signature)
    /\ nFetch' = nFetch + 1
    /\ lastFetch' = "err"
    /\ Fatal("fetch failed")
    /\ UNCHANGED <<before_signature, sigs, idx, nList, nPages, served,
                   lastList, crossed, ix, verdict,
                   request>>

\* Mutant: a transaction in another encoding is an error of the run.
FetchNotJsonFatal ==
    /\ pc = "fetch"
    /\ SigParses(sigs[idx].signature)
    /\ nFetch' = nFetch + 1
    /\ lastFetch' = "notjson"
    /\ Fatal("unsupported encoding")
    /\ UNCHANGED <<before_signature, sigs, idx, nList, nPages, served,
                   lastList, crossed, ix, verdict, request>>

\* Lines 65-68: the transaction is not EncodedTransaction::Json; continue.
FetchNotJson ==
    /\ pc = "fetch"
    /\ SigParses(sigs[idx].signature)
    /\ nFetch' = nFetch + 1
    /\ lastFetch' = "notjson"
    /\ idx' = idx + 1
    /\ pc' = "record"
    /\ UNCHANGED <<before_signature, sigs, transfers, reply, nList, nPages,
                   served, lastList, crossed, ix, verdict,
                   request>>

\* Lines 62-151: every instruction of the transaction is classified and the
\* qualifying ones are rendered and pushed.  Rendering the first qualifying
\* one panics when the record's block time is outside chrono's range.
FetchJson(instructions) ==
    /\ pc = "fetch"
    /\ SigParses(sigs[idx].signature)
    /\ nFetch' = nFetch + 1
    /\ lastFetch' = "json"
    /\ LET block_time == sigs[idx].block_time.v
           entries == Pushed(instructions, block_time, Len(transfers))
       IN  IF entries # <<>> /\ ~InChronoRange(block_time)
           THEN /\ pc' = "panicked"
                /\ UNCHANGED <<idx, transfers>>
           ELSE /\ transfers' = transfers \o entries
                /\ idx' = idx + 1
                /\ pc' = "record"
    /\ UNCHANGED <<before_signature, sigs, reply, nList, nPages, served,
                   lastList, crossed, ix, verdict,
                   request>>

\* The classifier on its own, on one instruction.
Classify ==
    /\ pc = "classify"
    /\ ~verdict.done
    /\ verdict' = [done |-> TRUE, events |-> ClassifyIx(ix)]
    /\ UNCHANGED <<pc, before_signature, sigs, idx, transfers, reply, nList,
                   nPages, served, lastList, crossed, lastFetch, ix,
                   nFetch, request>>

-----------------------------------------------------------------------------
(* Specifications *)

\* Lines 14-24: the state when the loop is entered.
WalkInit ==
    /\ before_signature = None
    /\ sigs = <<>>
    /\ idx = 1
    /\ transfers = <<>>
    /\ reply = NoReply
    /\ nList = 0
    /\ nPages = 0
    /\ served = 0
    /\ lastList = "none"
    /\ crossed = FALSE
    /\ lastFetch = "none"
    /\ nFetch = 0
    /\ request = [before |-> None, limit |-> [some |-> FALSE, v |-> 0]]
    /\ verdict = [done |-> FALSE, events |-> <<>>]

Init ==
    /\ WalkInit
    /\ pc = "list"
    /\ ix = TokenIx("burn", Absent, Absent, Absent, AbsentA, AbsentA)

Next ==
    \/ ListErr
    \/ ListEmpty
    \/ \E page \in Pages(MaxHistory - served) : ListPage(page)
    \/ EndOfPage
    \/ SkipNoTime
    \/ CutoffBreak
    \/ InWindow
    \/ SigParseFails
    \/ FetchErr
    \/ FetchNotJson
    \/ \E instructions \in InstructionLists : FetchJson(instructions)

\* One backfill, from the request to the answer.
Spec == Init /\ [][Next]_vars

ClassifyInit ==
    /\ WalkInit
    /\ pc = "classify"
    /\ ix \in Instructions

ClassifyNext == Classify

\* The classifier applied to every instruction shape.
SpecClassify == ClassifyInit /\ [][ClassifyNext]_vars

-----------------------------------------------------------------------------
(* Claims *)

\* No request is pending and none will be made.
WalkOver == pc \in {"returned", "panicked"} /\ ~ENABLED Next

\* C1: no record whose block time is before the cutoff is fetched (the walk
\* stands at a fetch only for a record at or after the cutoff), none is
\* rendered into transfers or the answer, and once such a record has been met
\* the walk is over within that page: no further request is made.
C1_WindowBoundary ==
    /\ pc = "fetch" =>
          /\ sigs[idx].block_time.some
          /\ ~TsLess(sigs[idx].block_time.v, cutoff_ts)
    /\ \A k \in 1..Len(transfers) :
          ~TsLess(transfers[k].block_time, cutoff_ts)
    /\ \A k \in 1..Len(reply.body) :
          ~TsLess(reply.body[k].block_time, cutoff_ts)
    /\ crossed => WalkOver /\ reply.status = 200

\* C1 witness: the walk ended on a record older than the cutoff with records
\* of that page still unvisited behind it.
C1_Witness ==
    /\ crossed
    /\ pc = "returned"
    /\ idx < Len(sigs)

\* C2 (as claimed): a failed get_transaction is a skip, so the backfill is
\* not answered with a failure because of it.
C2_FetchFailureIsSkip ==
    lastFetch = "err" => ~(pc = "returned" /\ reply.status = 500)

\* C3: a failed listing request, the first or a later one, ends the backfill
\* at once with the failure answer; nothing gathered is answered and no
\* request follows.
C3_ListFailureFatal ==
    lastList = "err" =>
        /\ WalkOver
        /\ reply.status = 500
        /\ reply.body = <<>>

\* C3 witness: the second listing request failed after a page whose
\* transfers had been gathered.
C3_Witness ==
    /\ lastList = "err"
    /\ nList = 2
    /\ transfers # <<>>
    /\ reply.status = 500

\* C4: an empty page ends the walk, and the listing requests never number
\* more than one beyond the non-empty pages received.
C4_EmptyPageEnds ==
    /\ lastList = "empty" => WalkOver /\ reply.status = 200
    /\ nList <= nPages + 1

\* C4 witness: an empty page arrived after a non-empty one, on the one
\* request beyond it.
C4_Witness ==
    /\ lastList = "empty"
    /\ nPages >= 1
    /\ nList = nPages + 1
    /\ pc = "returned"

\* C5 (as claimed): when the gathered events have pairwise distinct
\* timestamps, the answer lists them strictly ascending by timestamp.
C5_AscendingByTimestamp ==
    (/\ pc = "returned"
     /\ reply.status = 200
     /\ \A j, k \in 1..Len(reply.body) :
           j # k => reply.body[j].block_time # reply.body[k].block_time)
    => \A j, k \in 1..Len(reply.body) :
           j < k => TsLess(reply.body[j].block_time, reply.body[k].block_time)

\* C6 (as claimed): events with equal timestamps stand in the answer in the
\* order in which they were pushed.
C6_TiesInInsertionOrder ==
    (pc = "returned" /\ reply.status = 200)
    => \A j, k \in 1..Len(reply.body) :
           (j < k /\ reply.body[j].block_time = reply.body[k].block_time)
           => reply.body[j].ord < reply.body[k].ord

\* An instruction that passes every step before the direction step: a
\* parsed spl-token transfer or transferChecked with an info object, no
\* foreign mint string and a non-zero amount.
QualifiesBeforeDirection(i) ==
    /\ i.kind = "Parsed"
    /\ i.program = "spl-token"
    /\ i.type \in {JStr("transfer"), JStr("transferChecked")}
    /\ i.hasInfo
    /\ (i.mint.tag = "str" => i.mint.s = USDC_MINT_ADDRESS)
    /\ AmountU64(i.amount, i.tokenAmount) > 0

\* C7: an instruction yields at most one event, of one direction, and an
\* instruction that qualifies and whose source is the wallet yields a sent
\* event whatever its destination.
C7_DirectionExclusive ==
    verdict.done =>
        /\ Len(verdict.events) <= 1
        /\ \A k \in 1..Len(verdict.events) :
              verdict.events[k].direction \in {"sent", "received"}
        /\ (QualifiesBeforeDirection(ix) /\ ix.source = JStr(WALLET_ADDRESS))
           => /\ Len(verdict.events) = 1
              /\ verdict.events[1].direction = "sent"

\* C7 witness: classified, with source and destination both the wallet.
C7_Witness ==
    /\ verdict.done
    /\ QualifiesBeforeDirection(ix)
    /\ ix.source = JStr(WALLET_ADDRESS)
    /\ ix.destination = JStr(WALLET_ADDRESS)
    /\ verdict.events # <<>>

\* C8 (as claimed): a qualifying instruction whose source is not the wallet,
\* absent or different, is received whenever its destination is the wallet.
C8_ReceivedWheneverDestination ==
    (/\ verdict.done
     /\ QualifiesBeforeDirection(ix)
     /\ ix.source # JStr(WALLET_ADDRESS)
     /\ ix.destination = JStr(WALLET_ADDRESS))
    => /\ Len(verdict.events) = 1
       /\ verdict.events[1].direction = "received"

\* C8 (amended): a qualifying instruction whose source is a string other
\* than the wallet is received whenever its destination is the wallet; one
\* whose source is absent (or not a string) yields no event, whatever its
\* destination.
C8_ReceivedWhenSourcePresent ==
    (verdict.done /\ QualifiesBeforeDirection(ix))
    => /\ (/\ ix.source.tag = "str"
           /\ ix.source.s # WALLET_ADDRESS
           /\ ix.destination = JStr(WALLET_ADDRESS))
          => /\ Len(verdict.events) = 1
             /\ verdict.events[1].direction = "received"
       /\ ix.source.tag # "str" => verdict.events = <<>>

\* C8 witness: classified as received, the source another account and the
\* destination the wallet.
C8_Witness ==
    /\ verdict.done
    /\ ix.source = JStr("OtherAccount")
    /\ ix.destination = JStr(WALLET_ADDRESS)
    /\ Len(verdict.events) = 1
    /\ verdict.events[1].direction = "received"

\* C9: an instruction yields an event only if it is of the parsed kind, its
\* program is exactly "spl-token" and its type is transfer or
\* transferChecked.
C9_OnlyTokenTransfers ==
    (verdict.done /\ verdict.events # <<>>)
    => /\ ix.kind = "Parsed"
       /\ ix.program = "spl-token"
       /\ ix.type \in {JStr("transfer"), JStr("transferChecked")}

\* C9 witness: a transferChecked instruction was classified and yielded an
\* event.
C9_Witness ==
    /\ verdict.done
    /\ verdict.events # <<>>
    /\ ix.type = JStr("transferChecked")

\* C10: an instruction whose mint is a string other than the target asset
\* yields no event, and an instruction without a mint field yields exactly
\* what the same instruction with the target asset as mint yields.
C10_MintPermissive ==
    verdict.done =>
        /\ (ix.mint.tag = "str" /\ ix.mint.s # USDC_MINT_ADDRESS)
           => verdict.events = <<>>
        /\ ix.mint = Absent
           => verdict.events
              = ClassifyIx([ix EXCEPT !.mint = JStr(USDC_MINT_ADDRESS)])

\* C10 witness: an instruction without a mint field was classified and
\* yielded an event.
C10_Witness ==
    /\ verdict.done
    /\ ix.mint = Absent
    /\ verdict.events # <<>>

\* The amount string the instruction carries: the direct amount field when
\* it is a string, else the nested tokenAmount.amount when that is one.
CarriedAmount(i) ==
    IF i.amount.tag = "str" THEN Some(i.amount.s)
    ELSE IF i.tokenAmount.tag = "str" THEN Some(i.tokenAmount.s)
    ELSE [some |-> FALSE, v |-> <<>>]

\* The amount strings of the model that are no unsigned 64-bit integer
\* (empty, a letter, a minus sign, u64::MAX + 1) or that denote 0.
NoPositiveAmount ==
    {<<>>, <<"1", "2", "a">>, <<"-", "1">>, U64MaxPlusOne, <<"0">>,
     <<"0", "0">>}

\* C11: every event has a raw amount above 0, and an instruction whose
\* amount is missing, is no unsigned integer or is 0 yields no event.
C11_AmountPositive ==
    verdict.done =>
        /\ \A k \in 1..Len(verdict.events) : verdict.events[k].amount_u64 > 0
        /\ (~CarriedAmount(ix).some \/ CarriedAmount(ix).v \in NoPositiveAmount)
           => verdict.events = <<>>

\* C11 witness: a transfer out of the wallet that passes every other step
\* was classified with an amount string that does not parse, and was dropped.
C11_Witness ==
    /\ verdict.done
    /\ ix.kind = "Parsed"
    /\ ix.program = "spl-token"
    /\ ix.type = JStr("transfer")
    /\ ix.hasInfo
    /\ ix.mint = JStr(USDC_MINT_ADDRESS)
    /\ ix.source = JStr(WALLET_ADDRESS)
    /\ ix.amount = JStr(<<"1", "2", "a">>)
    /\ ix.tokenAmount = JStr(<<"1">>)
    /\ verdict.events = <<>>

\* The backfill returned Err: the listing failed, a signature did not
\* parse, or a fetch failed.
EndedFatally == lastList = "err" \/ lastFetch \in {"badsig", "err"}

\* The backfill returned Ok: an empty page or a record older than the
\* cutoff ended the loop.
EndedNormally == lastList = "empty" \/ crossed

\* C12: the handler answers 200 with the rendered (sorted) list exactly when
\* the backfill returned Ok and 500 with an error message exactly when it
\* returned Err; the 500 answer carries none of the gathered events; every
\* return of the backfill is answered (no rejection).
C12_HandlerAnswers ==
    /\ EndedNormally \/ EndedFatally => pc = "returned"
    /\ pc = "returned" =>
          /\ reply.status \in {200, 500}
          /\ reply.status = 200 <=> (EndedNormally /\ ~EndedFatally)
          /\ reply.status = 500 <=> (EndedFatally /\ ~EndedNormally)
          /\ reply.status = 200 =>
                reply.body = SortEntries(transfers) /\ reply.error = <<>>
          /\ reply.status = 500 =>
                reply.body = <<>> /\ reply.error # <<>>

\* C12 witness: a listing failed after events had been gathered, and the
\* answer is 500 without them.
C12_Witness ==
    /\ pc = "returned"
    /\ lastList = "err"
    /\ transfers # <<>>
    /\ reply.status = 500
    /\ reply.body = <<>>

\* C13 (as claimed): whatever a fetched transaction holds and whatever the
\* record's block time, classifying it ends with the walk going on to the
\* next record, and nothing is answered because of it.
C13_ClassificationNeverFails ==
    [][(pc = "fetch" /\ lastFetch' = "json" /\ nFetch' = nFetch + 1)
       => (pc' = "record" /\ idx' = idx + 1 /\ reply' = reply)]_vars

\* C14: a fetched transaction that is not in the JSON-parsed encoding adds no
\* entry, answers nothing, and the walk stands at the next record of the
\* same page.
C14_NotJsonIsSkipped ==
    [][(pc = "fetch" /\ lastFetch' = "notjson" /\ nFetch' = nFetch + 1)
       => /\ pc' = "record"
          /\ idx' = idx + 1
          /\ sigs' = sigs
          /\ transfers' = transfers
          /\ reply' = reply]_vars

\* C14 witness: the first record of a two-record page came back in another
\* encoding and the walk stands at the second.
C14_Witness ==
    /\ lastFetch = "notjson"
    /\ pc = "record"
    /\ idx = 2
    /\ Len(sigs) = 2
    /\ reply = NoReply

\* C15: at a record inside the window whose signature does not parse, the
\* backfill is answered with the failure without a fetch request, and it is
\* over: no later record or page is processed.
C15_BadSignatureFatal ==
    /\ [][(pc = "fetch" /\ ~SigParses(sigs[idx].signature))
          => /\ nFetch' = nFetch
             /\ idx' = idx
             /\ pc' = "returned"
             /\ reply'.status = 500]_vars
    /\ [](lastFetch = "badsig" =>
             /\ WalkOver
             /\ reply.status = 500
             /\ reply.body = <<>>)

\* C15 witness: the walk ended on an unparsable signature with a record of
\* the page still unvisited and nothing fetched.
C15_Witness ==
    /\ lastFetch = "badsig"
    /\ pc = "returned"
    /\ reply.status = 500
    /\ idx < Len(sigs)
    /\ nFetch = 0

\* The steps a walk can still take, at most: 0 once it is over; before
\* that, four for every record of the history not yet handed out, two for
\* every record of the page not yet visited, and one for the step in hand.
StepsLeft ==
    IF pc \in {"returned", "panicked"} THEN 0
    ELSE 1 + 4 * (MaxHistory - served)
         + (CASE pc = "list" -> 0
              [] pc = "record" -> 2 * (Len(sigs) + 1 - idx) + 1
              [] pc = "fetch" -> 2 * (Len(sigs) + 1 - idx))

\* The guards of ListErr (a listing can always fail), of EndOfPage and the
\* three tests of a record (SkipNoTime, CutoffBreak, InWindow: one of them
\* holds of any record), and of SigParseFails and FetchErr (one of them holds
\* of any signature): where one holds the walk can take a step.
CanStep ==
    \/ pc = "list"
    \/ pc = "record" /\ sigs # <<>> /\ idx \in 1..(Len(sigs) + 1)
    \/ pc = "fetch" /\ idx \in 1..Len(sigs)

C17_CursorDiscipline ==
    /\ [](pc = "list" =>
             IF nList = 0 THEN before_signature = None
             ELSE /\ sigs # <<>>
                  /\ before_signature = Some(sigs[Len(sigs)].signature))
    /\ [][nList' # nList
          => /\ request'.before = before_signature
             /\ request'.limit = Some(PageLimit)]_vars
    /\ [][before_signature' # before_signature
          => /\ pc = "record"
             /\ sigs # <<>>
             /\ idx > Len(sigs)
             /\ pc' = "list"]_vars

\* C17 witness: the second request, made after a page of two records with
\* different signatures, carried the second one as cursor and limit 1000.
C17_Witness ==
    /\ nList = 2
    /\ lastList = "empty"
    /\ Len(sigs) = 2
    /\ sigs[1].signature # sigs[2].signature
    /\ request.before = Some(sigs[2].signature)
    /\ request.limit.v = 1000

\* C18: a record whose block time is at or after the cutoff goes to the
\* fetch and does not end the walk; only a record strictly older ends it;
\* and when the loop has run off the page's end the next page is requested.
C18_CutoffStrict ==
    /\ [][(/\ pc = "record"
           /\ idx <= Len(sigs)
           /\ sigs[idx].block_time.some
           /\ ~TsLess(sigs[idx].block_time.v, cutoff_ts))
          => /\ pc' = "fetch"
             /\ idx' = idx
             /\ ~crossed'
             /\ reply' = reply]_vars
    /\ [](crossed => TsLess(sigs[idx].block_time.v, cutoff_ts))
    /\ [][(pc = "record" /\ idx > Len(sigs)) => pc' = "list"]_vars

\* C18 witness: the last record of a page had exactly the cutoff as block
\* time, its transfer was gathered, and the next page was requested.
C18_Witness ==
    /\ nList = 2
    /\ lastList = "empty"
    /\ sigs[Len(sigs)].block_time = Some(cutoff_ts)
    /\ lastFetch = "json"
    /\ \E k \in 1..Len(transfers) : transfers[k].block_time = cutoff_ts

\* C19: a record without block time is passed over: the loop moves to the
\* next record with nothing fetched, pushed, answered or ended; no fetch is
\* ever made for such a record; and the cursor becomes the signature of the
\* page's last record whatever that record's block time.
C19_NoTimeSkipped ==
    /\ [][(pc = "record" /\ idx <= Len(sigs) /\ ~sigs[idx].block_time.some)
          => /\ pc' = "record"
             /\ idx' = idx + 1
             /\ UNCHANGED <<sigs, transfers, reply, nFetch, crossed,
                            before_signature>>]_vars
    /\ [](pc = "fetch" => sigs[idx].block_time.some)
    /\ [][(pc = "record" /\ idx > Len(sigs))
          => before_signature' = Some(sigs[Len(sigs)].signature)]_vars

\* C19 witness: the second record of a page had no block time; only the
\* first was fetched, and the second's signature was the cursor of the next
\* request.
C19_Witness ==
    /\ nList = 2
    /\ lastList = "empty"
    /\ Len(sigs) = 2
    /\ sigs[1].block_time.some
    /\ ~sigs[2].block_time.some
    /\ nFetch = 1
    /\ request.before = Some(sigs[2].signature)

=============================================================================
